---- MODULE Spec2Model ----
(***************************************************************************)
(* Model of the generational slot map of src/src/lib.rs: Key, Slot and     *)
(* SlotMap with add / remove / get / get_mut / get_unique_key / len.       *)
(*                                                                         *)
(* The value type V is modelled as a plain integer type (as in the         *)
(* repository's tests, V = i32), for which the all-zero bit pattern that   *)
(* Slot::unchecked_remove leaves behind is the value 0.                    *)
(* Indices are 0-based as in the source; data[i] of the source is          *)
(* data[i + 1] of the model's sequence.                                    *)
(***************************************************************************)
EXTENDS Integers, Sequences, FiniteSets, TLC

\* u32::MAX, scaled down so that exhausting the generation counter is
\* reachable; the reserved sentinel index and the counter's ceiling.
U32_MAX == 3
\* largest max_slots a map is constructed with
MaxSlots == 2
\* values stored are 0..MaxVal
MaxVal == 1

Values == 0..MaxVal
U32 == 0..U32_MAX

VARIABLES
    max_slots,   \* SlotMap.max_slots
    generation,  \* SlotMap.generation: generation last minted
    data,        \* SlotMap.data: sequence of slots [generation, value]
    openlist,    \* SlotMap.openlist: stack of empty slot indices
    call,        \* the last call made on the map: [op, key, value]
    ret,         \* what that call returned
    key1,        \* a key the caller got from add or get_unique_key and holds on to
    count,       \* successful add calls minus successful remove calls so far
    removed,     \* whether any remove call has succeeded so far
    lost,        \* a generation consumed by an add that failed with NoFreeSlots (0: none noted)
    freed        \* indices of the keys removed and not handed out again by add, oldest first

vars == <<max_slots, generation, data, openlist, call, ret, key1, count, removed, lost, freed>>
mapvars == <<max_slots, generation, data, openlist>>

----------------------------------------------------------------------------
\* Key: the union's two u32 fields
MkKey(index, gen) == [index |-> index, generation |-> gen]
NoKey == MkKey(0, 0)
Keys == [index : U32, generation : U32]

\* 2^32: the weight of the upper u32 of the packed key
Half == U32_MAX + 1
U64 == 0..(Half * Half - 1)

\* From<Key<V>> for u64 with the two u32 fields shifted one into the other
BugKeyToU64Overlap(key) == key.index + key.generation * U32_MAX

\* From<Key<V>> for u64: the union read as x; index is the first field of
\* KeyInner (the low half on a little-endian target), generation the second
KeyToU64(key) == key.index + key.generation * Half

\* From<u64> for Key<V>: the union written as x and read as inner
KeyFromU64(x) == MkKey(x % Half, x \div Half)

\* PartialEq for Key<V>: the packed values are compared
KeyEq(a, b) == KeyToU64(a) = KeyToU64(b)

\* Option<V>
None == [some |-> FALSE, value |-> 0]
Some(v) == [some |-> TRUE, value |-> v]

\* results of calls, in one record shape
RetOk(k) == [tag |-> "Ok", key |-> k, value |-> 0, err |-> ""]
RetErr(e) == [tag |-> "Err", key |-> NoKey, value |-> 0, err |-> e]
RetOpt(o) == [tag |-> IF o.some THEN "Some" ELSE "None", key |-> NoKey, value |-> o.value, err |-> ""]
RetLen(n) == [tag |-> "Len", key |-> NoKey, value |-> n, err |-> ""]
RetNew == [tag |-> "New", key |-> NoKey, value |-> 0, err |-> ""]

\* Key::new with its two arguments written into the wrong fields
BugKeyNewSwapped(index, gen) ==
    IF index % (U32_MAX + 1) = U32_MAX
    THEN RetErr("IndexOutOfBounds")
    ELSE RetOk(MkKey(gen, index % (U32_MAX + 1)))

\* Key::new: index is cast to u32 and the sentinel is refused
KeyNew(index, gen) ==
    IF index % (U32_MAX + 1) = U32_MAX
    THEN RetErr("IndexOutOfBounds")
    ELSE RetOk(MkKey(index % (U32_MAX + 1), gen))

\* Key::new_special: the sentinel index
KeyNewSpecial(gen) == RetOk(MkKey(U32_MAX, gen))

\* Slot
SlotNew(gen, value) == [generation |-> gen, value |-> value]
SlotIsEmpty(slot) == slot.generation = 0

\* Slot::get that only checks that the slot is occupied
BugSlotGetNoGeneration(slot, key) ==
    IF slot.generation > 0
    THEN Some(slot.value)
    ELSE None

\* Slot::get_mut that compares generations without asking for occupancy
BugSlotGetMutNoOccupancy(slot, key) ==
    IF key.generation = slot.generation
    THEN Some(slot.value)
    ELSE None

\* Slot::get / Slot::get_mut: the generation check
SlotGet(slot, key) ==
    IF slot.generation > 0 /\ key.generation = slot.generation
    THEN Some(slot.value)
    ELSE None

SlotGetMut(slot, key) ==
    IF slot.generation > 0 /\ key.generation = slot.generation
    THEN Some(slot.value)
    ELSE None

\* Slot::unchecked_remove that takes the value but leaves the generation
BugUncheckedRemoveKeepsGeneration(slot) == [generation |-> slot.generation, value |-> 0]

\* Slot::unchecked_remove: the slot after the value was taken out
UncheckedRemove(slot) == [generation |-> 0, value |-> 0]

\* Slot::remove that takes the value of any occupied slot, whatever the key
BugSlotRemoveNoGeneration(slot, key) ==
    IF slot.generation > 0
    THEN [out |-> Some(slot.value), slot |-> UncheckedRemove(slot)]
    ELSE [out |-> None, slot |-> slot]

\* Slot::remove that empties the slot before it has checked the key
BugSlotRemoveClearsFirst(slot, key) ==
    IF slot.generation > 0 /\ key.generation = slot.generation
    THEN [out |-> Some(slot.value), slot |-> UncheckedRemove(slot)]
    ELSE [out |-> None, slot |-> UncheckedRemove(slot)]

\* Slot::remove: [out |-> value handed out, slot |-> the slot afterwards]
SlotRemove(slot, key) ==
    IF slot.generation > 0 /\ key.generation = slot.generation
    THEN [out |-> Some(slot.value), slot |-> UncheckedRemove(slot)]
    ELSE [out |-> None, slot |-> slot]

\* increment_generation with saturating_add in place of checked_add
BugIncrementGenerationSaturating(gen) ==
    IF gen + 1 <= U32_MAX
    THEN [ok |-> TRUE, gen |-> gen + 1]
    ELSE [ok |-> TRUE, gen |-> U32_MAX]

\* increment_generation with wrapping_add in place of checked_add
BugIncrementGenerationWrapping(gen) ==
    [ok |-> TRUE, gen |-> (gen + 1) % (U32_MAX + 1)]

\* SlotMap::increment_generation: checked_add(1) on a u32
IncrementGeneration(gen) ==
    IF gen + 1 <= U32_MAX
    THEN [ok |-> TRUE, gen |-> gen + 1]
    ELSE [ok |-> FALSE, gen |-> gen]

\* Vec::get on data
InRange(d, index) == index < Len(d)

\* SlotMap::get as a function of the state
MapGet(d, key) ==
    IF InRange(d, key.index) THEN SlotGet(d[key.index + 1], key) ELSE None

\* len that forgets the free list
BugMapLenIgnoresOpenlist(d, ol) == Len(d)

\* SlotMap::len
MapLen(d, ol) == Len(d) - Len(ol)

\* SlotMap::new that also refuses initial_slots = max_slots
BugNewRejectsEqual(initial_slots, max) ==
    IF initial_slots >= max THEN [ok |-> FALSE, err |-> "InvalidArgument"]
    ELSE IF max = U32_MAX THEN [ok |-> FALSE, err |-> "InvalidArgument"]
    ELSE [ok |-> TRUE, err |-> ""]

\* SlotMap::new
New(initial_slots, max) ==
    IF initial_slots > max THEN [ok |-> FALSE, err |-> "InvalidArgument"]
    ELSE IF max = U32_MAX THEN [ok |-> FALSE, err |-> "InvalidArgument"]
    ELSE [ok |-> TRUE, err |-> ""]

----------------------------------------------------------------------------
\* the call SlotMap::new(initial_slots, max_slots); the key field carries no
\* key here
NewCall(initial_slots, max) ==
    [op |-> "new", key |-> NoKey, value |-> 0, args |-> <<initial_slots, max>>]
\* the arguments new is called with: max_slots up to MaxSlots, and u32::MAX
NewArgs == {<<i, m>> : i \in U32, m \in (0..MaxSlots) \cup {U32_MAX}}
NotHeld == [state |-> "none", key |-> NoKey, orig |-> 0, value |-> 0]

\* The state after SlotMap::new(initial_slots, max_slots) returned.  Where it
\* returned an error there is no map: the fields are left at 0 / empty and
\* no operation can be called.
Init ==
    /\ \E a \in NewArgs :
          /\ call = NewCall(a[1], a[2])
          /\ ret = IF New(a[1], a[2]).ok THEN RetNew ELSE RetErr(New(a[1], a[2]).err)
          /\ max_slots = IF New(a[1], a[2]).ok THEN a[2] ELSE 0
    /\ generation = 0
    /\ data = <<>>
    /\ openlist = <<>>
    /\ key1 = NotHeld
    /\ count = 0
    /\ removed = FALSE
    /\ lost = 0
    /\ freed = <<>>

----------------------------------------------------------------------------
\* add that lets data grow one slot past max_slots
BugMapAddOffByOne(gen, d, ol, max, value) ==
    LET inc == IncrementGeneration(gen) IN
    IF ~inc.ok
    THEN [generation |-> gen, data |-> d, openlist |-> ol,
          ret |-> RetErr("MaxGenerationReached")]
    ELSE IF Len(ol) > 0
    THEN \* openlist.pop(): reuse an existing empty slot
         LET index == ol[Len(ol)]
             popped == SubSeq(ol, 1, Len(ol) - 1)
         IN  IF InRange(d, index)
             THEN IF SlotIsEmpty(d[index + 1])
                  THEN [generation |-> inc.gen,
                        data |-> [d EXCEPT ![index + 1] =
                                    [generation |-> inc.gen, value |-> value]],
                        openlist |-> popped,
                        ret |-> KeyNew(index, inc.gen)]
                  ELSE [generation |-> inc.gen, data |-> d, openlist |-> popped,
                        ret |-> RetErr("SlotNotEmpty")]
             ELSE [generation |-> inc.gen, data |-> d, openlist |-> popped,
                   ret |-> RetErr("IndexOutOfBounds")]
    ELSE \* expand the data vec
         LET index == Len(d) IN
         IF index > max
         THEN [generation |-> inc.gen, data |-> d, openlist |-> ol,
               ret |-> RetErr("NoFreeSlots")]
         ELSE [generation |-> inc.gen,
               data |-> Append(d, SlotNew(inc.gen, value)),
               openlist |-> ol,
               ret |-> KeyNew(index, inc.gen)]

\* add that gives the generation back when it fails with NoFreeSlots
BugMapAddRollsBack(gen, d, ol, max, value) ==
    LET inc == IncrementGeneration(gen) IN
    IF ~inc.ok
    THEN [generation |-> gen, data |-> d, openlist |-> ol,
          ret |-> RetErr("MaxGenerationReached")]
    ELSE IF Len(ol) > 0
    THEN \* openlist.pop(): reuse an existing empty slot
         LET index == ol[Len(ol)]
             popped == SubSeq(ol, 1, Len(ol) - 1)
         IN  IF InRange(d, index)
             THEN IF SlotIsEmpty(d[index + 1])
                  THEN [generation |-> inc.gen,
                        data |-> [d EXCEPT ![index + 1] =
                                    [generation |-> inc.gen, value |-> value]],
                        openlist |-> popped,
                        ret |-> KeyNew(index, inc.gen)]
                  ELSE [generation |-> inc.gen, data |-> d, openlist |-> popped,
                        ret |-> RetErr("SlotNotEmpty")]
             ELSE [generation |-> inc.gen, data |-> d, openlist |-> popped,
                   ret |-> RetErr("IndexOutOfBounds")]
    ELSE \* expand the data vec
         LET index == Len(d) IN
         IF index >= max
         THEN [generation |-> gen, data |-> d, openlist |-> ol,
               ret |-> RetErr("NoFreeSlots")]
         ELSE [generation |-> inc.gen,
               data |-> Append(d, SlotNew(inc.gen, value)),
               openlist |-> ol,
               ret |-> KeyNew(index, inc.gen)]

\* add that takes the oldest entry of the free list instead of the newest
BugMapAddQueue(gen, d, ol, max, value) ==
    LET inc == IncrementGeneration(gen) IN
    IF ~inc.ok
    THEN [generation |-> gen, data |-> d, openlist |-> ol,
          ret |-> RetErr("MaxGenerationReached")]
    ELSE IF Len(ol) > 0
    THEN \* openlist.pop(): reuse an existing empty slot
         LET index == ol[1]
             popped == SubSeq(ol, 2, Len(ol))
         IN  IF InRange(d, index)
             THEN IF SlotIsEmpty(d[index + 1])
                  THEN [generation |-> inc.gen,
                        data |-> [d EXCEPT ![index + 1] =
                                    [generation |-> inc.gen, value |-> value]],
                        openlist |-> popped,
                        ret |-> KeyNew(index, inc.gen)]
                  ELSE [generation |-> inc.gen, data |-> d, openlist |-> popped,
                        ret |-> RetErr("SlotNotEmpty")]
             ELSE [generation |-> inc.gen, data |-> d, openlist |-> popped,
                   ret |-> RetErr("IndexOutOfBounds")]
    ELSE \* expand the data vec
         LET index == Len(d) IN
         IF index >= max
         THEN [generation |-> inc.gen, data |-> d, openlist |-> ol,
               ret |-> RetErr("NoFreeSlots")]
         ELSE [generation |-> inc.gen,
               data |-> Append(d, SlotNew(inc.gen, value)),
               openlist |-> ol,
               ret |-> KeyNew(index, inc.gen)]

\* SlotMap::add as a function of the state: the fields afterwards and the
\* result.  The generation is incremented first; every later return keeps
\* the incremented counter.
MapAdd(gen, d, ol, max, value) ==
    LET inc == IncrementGeneration(gen) IN
    IF ~inc.ok
    THEN [generation |-> gen, data |-> d, openlist |-> ol,
          ret |-> RetErr("MaxGenerationReached")]
    ELSE IF Len(ol) > 0
    THEN \* openlist.pop(): reuse an existing empty slot
         LET index == ol[Len(ol)]
             popped == SubSeq(ol, 1, Len(ol) - 1)
         IN  IF InRange(d, index)
             THEN IF SlotIsEmpty(d[index + 1])
                  THEN [generation |-> inc.gen,
                        data |-> [d EXCEPT ![index + 1] =
                                    [generation |-> inc.gen, value |-> value]],
                        openlist |-> popped,
                        ret |-> KeyNew(index, inc.gen)]
                  ELSE [generation |-> inc.gen, data |-> d, openlist |-> popped,
                        ret |-> RetErr("SlotNotEmpty")]
             ELSE [generation |-> inc.gen, data |-> d, openlist |-> popped,
                   ret |-> RetErr("IndexOutOfBounds")]
    ELSE \* expand the data vec
         LET index == Len(d) IN
         IF index >= max
         THEN [generation |-> inc.gen, data |-> d, openlist |-> ol,
               ret |-> RetErr("NoFreeSlots")]
         ELSE [generation |-> inc.gen,
               data |-> Append(d, SlotNew(inc.gen, value)),
               openlist |-> ol,
               ret |-> KeyNew(index, inc.gen)]

\* remove that pushes the index on the free list whenever it is in range
BugMapRemoveAlwaysPushes(d, ol, key) ==
    LET index == key.index IN
    IF InRange(d, index)
    THEN LET r == SlotRemove(d[index + 1], key) IN
         [data |-> [d EXCEPT ![index + 1] = r.slot],
          openlist |-> Append(ol, index),
          out |-> r.out]
    ELSE [data |-> d, openlist |-> ol, out |-> None]

\* SlotMap::remove as a function of the state
MapRemove(d, ol, key) ==
    LET index == key.index IN
    IF InRange(d, index)
    THEN LET r == SlotRemove(d[index + 1], key) IN
         [data |-> [d EXCEPT ![index + 1] = r.slot],
          openlist |-> IF r.out.some THEN Append(ol, index) ELSE ol,
          out |-> r.out]
    ELSE [data |-> d, openlist |-> ol, out |-> None]

\* SlotMap::get_mut as a function of the state: the slot it lends out
MapGetMut(d, key) ==
    IF InRange(d, key.index) THEN SlotGetMut(d[key.index + 1], key) ELSE None

\* get_unique_key that mints nothing: the current generation, index zero
BugMapGetUniqueKeyCurrent(gen) ==
    [generation |-> gen, ret |-> KeyNew(0, gen)]

\* SlotMap::get_unique_key as a function of the counter
MapGetUniqueKey(gen) ==
    LET inc == IncrementGeneration(gen) IN
    IF ~inc.ok
    THEN [generation |-> gen, ret |-> RetErr("MaxGenerationReached")]
    ELSE [generation |-> inc.gen, ret |-> KeyNewSpecial(inc.gen)]

----------------------------------------------------------------------------
\* there is a map to call: new did not return an error
Constructed == ~(call.op = "new" /\ ret.tag = "Err")

\* The caller's bookkeeping of the key it holds: "live" from add until its
\* remove succeeds (with the value given to add and the value last stored
\* under the key), "removed" after that, "unique" from get_unique_key
Hold(k, v) == [state |-> "live", key |-> k, orig |-> v, value |-> v]
Stale(k) == [state |-> "removed", key |-> k, orig |-> 0, value |-> 0]
HoldUnique(k) == [state |-> "unique", key |-> k, orig |-> 0, value |-> 0]

\* a sequence of indices without the index i
Without(seq, i) == SelectSeq(seq, LAMBDA j : j # i)

\* add(value)
Add(value) ==
    LET r == MapAdd(generation, data, openlist, max_slots, value) IN
    /\ Constructed
    /\ generation' = r.generation
    /\ data' = r.data
    /\ openlist' = r.openlist
    /\ call' = [op |-> "add", args |-> <<>>, key |-> NoKey, value |-> value]
    /\ ret' = r.ret
    /\ count' = IF r.ret.tag = "Ok" THEN count + 1 ELSE count
    /\ IF r.ret.tag = "Ok" /\ key1.state = "none"
       THEN key1' \in {key1, Hold(r.ret.key, value)}
       ELSE key1' = key1
    /\ IF r.ret = RetErr("NoFreeSlots") /\ lost = 0
       THEN lost' \in {lost, r.generation}
       ELSE lost' = lost
    /\ freed' = IF r.ret.tag = "Ok" THEN Without(freed, r.ret.key.index) ELSE freed
    /\ UNCHANGED <<max_slots, removed>>

\* remove(key)
Remove(key) ==
    LET r == MapRemove(data, openlist, key) IN
    /\ Constructed
    /\ data' = r.data
    /\ openlist' = r.openlist
    /\ call' = [op |-> "remove", args |-> <<>>, key |-> key, value |-> 0]
    /\ ret' = RetOpt(r.out)
    /\ count' = IF r.out.some THEN count - 1 ELSE count
    /\ removed' = (removed \/ r.out.some)
    /\ key1' = IF r.out.some /\ key1.state = "live" /\ key = key1.key
               THEN Stale(key)
               ELSE key1
    /\ freed' = IF r.out.some THEN Append(freed, key.index) ELSE freed
    /\ UNCHANGED <<max_slots, generation, lost>>

\* get(key)
Get(key) ==
    /\ Constructed
    /\ call' = [op |-> "get", args |-> <<>>, key |-> key, value |-> 0]
    /\ ret' = RetOpt(MapGet(data, key))
    /\ UNCHANGED <<mapvars, key1, count, removed, lost, freed>>

\* get_mut(key), after which the caller writes value through the reference
\* it was lent, if it was lent one
GetMut(key, value) ==
    LET r == MapGetMut(data, key) IN
    /\ Constructed
    /\ call' = [op |-> "get_mut", args |-> <<>>, key |-> key, value |-> value]
    /\ ret' = RetOpt(r)
    /\ data' = IF r.some
               THEN [data EXCEPT ![key.index + 1].value = value]
               ELSE data
    /\ key1' = IF r.some /\ key1.state = "live" /\ key = key1.key
               THEN [key1 EXCEPT !.value = value]
               ELSE key1
    /\ UNCHANGED <<max_slots, generation, openlist, count, removed, lost, freed>>

\* get_unique_key()
GetUniqueKey ==
    LET r == MapGetUniqueKey(generation) IN
    /\ Constructed
    /\ generation' = r.generation
    /\ call' = [op |-> "get_unique_key", args |-> <<>>, key |-> NoKey, value |-> 0]
    /\ ret' = r.ret
    /\ IF r.ret.tag = "Ok" /\ key1.state = "none"
       THEN key1' \in {key1, HoldUnique(r.ret.key)}
       ELSE key1' = key1
    /\ UNCHANGED <<max_slots, data, openlist, count, removed, lost, freed>>

\* len()
LenCall ==
    /\ Constructed
    /\ call' = [op |-> "len", args |-> <<>>, key |-> NoKey, value |-> 0]
    /\ ret' = RetLen(MapLen(data, openlist))
    /\ UNCHANGED <<mapvars, key1, count, removed, lost, freed>>

\* Keys a caller can present: the key it holds (a copy of a minted key,
\* live or stale) and keys forged with From<u64>: for every slot its index
\* with the generation it stores (0 if empty), and the latest generation at
\* index 0, at the first index past the end of data and at the sentinel
\* index.
ForgedKeys ==
    { KeyFromU64(x) : x \in
        {KeyToU64(MkKey(i - 1, data[i].generation)) : i \in 1..Len(data)}
            \cup {KeyToU64(MkKey(0, generation)),
                  KeyToU64(MkKey(Len(data), generation)),
                  KeyToU64(MkKey(U32_MAX, generation))} }
ArgKeys == {key1.key} \cup ForgedKeys

\* what the caller can write after get_mut(key): any value through the
\* reference it was lent, nothing (the model passes 0) if it was lent none
WritableValues(key) == IF MapGetMut(data, key).some THEN Values ELSE {0}

Next ==
    \/ \E v \in Values : Add(v)
    \/ \E k \in ArgKeys : Remove(k)
    \/ \E k \in ArgKeys : Get(k)
    \/ \E k \in ArgKeys : \E v \in WritableValues(k) : GetMut(k, v)
    \/ GetUniqueKey
    \/ LenCall

Spec == Init /\ [][Next]_vars

TypeOK ==
    /\ max_slots \in 0..MaxSlots
    /\ generation \in U32
    /\ Len(data) <= max_slots
    /\ \A i \in 1..Len(data) : data[i].generation \in U32 /\ data[i].value \in Values

----------------------------------------------------------------------------
\* What the three lookups make of a key in a state
Resolves(d, ol, key) ==
    \/ MapGet(d, key).some
    \/ MapGetMut(d, key).some
    \/ MapRemove(d, ol, key).out.some

Lookups == {"get", "get_mut", "remove"}
Minting == {"add", "get_unique_key"}

\* C1: whenever the generation counter is below u32::MAX and the free list
\* is non-empty or data.len() < max_slots, add(v) returns Ok(k), and get(k)
\* in the state right after the call returns Some(v).
C1_AddThenGet ==
    [][ ( /\ call'.op = "add"
          /\ generation < U32_MAX
          /\ (Len(openlist) > 0 \/ Len(data) < max_slots) )
        => ( /\ ret'.tag = "Ok"
             /\ MapGet(data', ret'.key) = Some(call'.value) ) ]_vars

\* C1 witness: an add that reused a freed slot returned a key that get
\* resolves to the value added.
C1_Witness ==
    /\ call.op = "add"
    /\ ret.tag = "Ok"
    /\ removed
    /\ call.value = 1
    /\ MapGet(data, ret.key) = Some(1)

\* C2 as stated: for the key k that add(v) returned, the first remove(k)
\* returns Some(v); from then on remove(k), get(k) and get_mut(k) return
\* None, whatever is called in between.
C2_RemoveReturnsOriginal ==
    [][ /\ ( key1.state = "live" /\ call'.op = "remove" /\ call'.key = key1.key )
            => ret' = RetOpt(Some(key1.orig))
        /\ ( key1.state = "removed" /\ call'.op \in Lookups /\ call'.key = key1.key )
            => ret'.tag = "None"
        /\ key1'.state = "removed" => ~Resolves(data', openlist', key1'.key) ]_vars

\* C2 amended: for the key k that add(v) returned, the first remove(k)
\* returns the value last stored under k (v, or what the caller last wrote
\* through get_mut(k)); from then on remove(k), get(k) and get_mut(k)
\* return None, whatever is called in between.
C2_RemoveReturnsStoredOnce ==
    [][ /\ ( key1.state = "live" /\ call'.op = "remove" /\ call'.key = key1.key )
            => ( ret' = RetOpt(Some(key1.value)) /\ key1'.state = "removed" )
        /\ ( key1.state = "removed" /\ call'.op \in Lookups /\ call'.key = key1.key )
            => ret'.tag = "None"
        /\ key1'.state = "removed" => ~Resolves(data', openlist', key1'.key) ]_vars

\* C2 witness: k was removed, its slot was reused by a later add, and a
\* second remove(k) returned None.
C2_Witness ==
    /\ key1.state = "removed"
    /\ call.op = "remove"
    /\ call.key = key1.key
    /\ ret.tag = "None"
    /\ InRange(data, key1.key.index)
    /\ data[key1.key.index + 1].generation > key1.key.generation

\* C3: when add pops the index freed by removing key k, the key it returns
\* has k's index and a strictly greater generation, and k resolves through
\* none of get, get_mut and remove in that state or any later one.
C3_ReuseBumpsGeneration ==
    [][ /\ ( /\ key1.state = "removed"
              /\ call'.op = "add"
              /\ generation < U32_MAX
              /\ Len(openlist) > 0
              /\ openlist[Len(openlist)] = key1.key.index )
            => ( /\ ret'.tag = "Ok"
                 /\ ret'.key.index = key1.key.index
                 /\ ret'.key.generation > key1.key.generation
                 /\ MapGet(data', ret'.key).some
                 /\ ~Resolves(data', openlist', key1.key) )
        /\ ( key1.state = "removed" /\ key1'.state = "removed" )
            => ~Resolves(data', openlist', key1.key) ]_vars

\* C3 witness: the slot of the removed key was reused by the last add.
C3_Witness ==
    /\ key1.state = "removed"
    /\ call.op = "add"
    /\ ret.tag = "Ok"
    /\ ret.key.index = key1.key.index
    /\ ret.key.generation > key1.key.generation

\* C4: on a map on which only successful adds have been made (no removal,
\* every minted generation stored), the counter is not exhausted and add
\* succeeds while fewer than max_slots adds have succeeded and returns
\* NoFreeSlots after that; and in every state add returns NoFreeSlots
\* exactly when the counter is below u32::MAX, the free list is empty and
\* data.len() = max_slots.
C4_NoFreeSlotsExactly ==
    [][ call'.op = "add" =>
        /\ ( ~removed /\ generation = count )
            => ( /\ generation < U32_MAX
                 /\ count < max_slots => ret'.tag = "Ok"
                 /\ count >= max_slots => ret' = RetErr("NoFreeSlots") )
        /\ ( ~removed /\ generation < U32_MAX )
            => ( ret'.tag = "Ok" <=> count < max_slots )
        /\ ret' = RetErr("NoFreeSlots")
            <=> ( /\ generation < U32_MAX
                  /\ Len(openlist) = 0
                  /\ Len(data) = max_slots ) ]_vars

\* C4 witness: with no removal, max_slots >= 2 adds succeeded and the next
\* add returned NoFreeSlots.
C4_Witness ==
    /\ call.op = "add"
    /\ ret = RetErr("NoFreeSlots")
    /\ ~removed
    /\ max_slots >= 2
    /\ count = max_slots
    /\ generation = max_slots + 1

\* C5: a key returned by get_unique_key differs from every key returned
\* by add before or after it, and get, get_mut and remove called with it
\* return None and change nothing in the map.
C5_UniqueKeyUnresolvable ==
    [][ /\ ( key1.state = "unique" /\ call'.op = "add" /\ ret'.tag = "Ok" )
            => ret'.key # key1.key
        /\ ( key1.state \in {"live", "removed"}
              /\ call'.op = "get_unique_key" /\ ret'.tag = "Ok" )
            => ret'.key # key1.key
        /\ key1'.state = "unique" => ~Resolves(data', openlist', key1'.key)
        /\ ( key1.state = "unique" /\ call'.op \in Lookups /\ call'.key = key1.key )
            => ( /\ ret'.tag = "None"
                 /\ UNCHANGED mapvars
                 /\ UNCHANGED <<count, removed>> ) ]_vars

\* C5 witness: remove was called with a held unique key while slot 0
\* holds a value that was added after the key was minted.
C5_Witness ==
    /\ key1.state = "unique"
    /\ Len(data) > 0
    /\ data[1].generation > key1.key.generation
    /\ call.op = "remove"
    /\ call.key = key1.key
    /\ ret.tag = "None"

\* the occupied slots of data
Occupied(d) == {i \in 1..Len(d) : d[i].generation > 0}

\* C6: in every state len() is the number of occupied slots, which is the
\* number of successful adds minus the number of successful removes; a
\* len() call returns it, and it is 0 on a freshly constructed map.
C6_LenIsOccupancy ==
    /\ MapLen(data, openlist) = Cardinality(Occupied(data))
    /\ MapLen(data, openlist) = count
    /\ call.op = "len" => ret = RetLen(count)
    /\ call.op = "new" => MapLen(data, openlist) = 0

\* C6 witness: add; add; remove(first) and then len() returned 1.
C6_Witness ==
    /\ call.op = "len"
    /\ ret = RetLen(1)
    /\ Len(data) = 2
    /\ data[1].generation = 0
    /\ data[2].generation > 0

\* C7: a successful add or get_unique_key returns a key whose generation
\* is the counter before the call plus one, so it is greater than the
\* generation of, and different from, every key returned earlier.
C7_GenerationStrictlyIncreases ==
    [][ ( call'.op \in Minting /\ ret'.tag = "Ok" )
        => ( /\ ret'.key.generation = generation + 1
             /\ generation = 0 => ret'.key.generation = 1
             /\ key1.state # "none"
                 => ( ret'.key.generation > key1.key.generation /\ ret'.key # key1.key ) ) ]_vars

\* C7 witness: add returned the key of a reused slot after a key from
\* get_unique_key had been returned and kept.
C7_Witness ==
    /\ call.op = "add"
    /\ ret.tag = "Ok"
    /\ Len(data) = 1
    /\ removed
    /\ key1.state = "unique"
    /\ ret.key.generation > key1.key.generation

\* C8: a remove that returns None leaves data, the free list, the
\* generation counter and len() as they were.
C8_FailedRemoveChangesNothing ==
    [][ ( call'.op = "remove" /\ ret'.tag = "None" )
        => ( /\ UNCHANGED mapvars
             /\ MapLen(data', openlist') = MapLen(data, openlist)
             /\ UNCHANGED <<count, removed>> ) ]_vars

\* C8 witness: remove with a stale key of a slot that is occupied again
\* returned None.
C8_Witness ==
    /\ call.op = "remove"
    /\ ret.tag = "None"
    /\ call.key.generation > 0
    /\ InRange(data, call.key.index)
    /\ data[call.key.index + 1].generation > call.key.generation

\* C9: with the generation counter at u32::MAX, add and get_unique_key
\* return MaxGenerationReached and change nothing in the map.
C9_ExhaustedCounterChangesNothing ==
    [][ ( generation = U32_MAX /\ call'.op \in Minting )
        => ( /\ ret' = RetErr("MaxGenerationReached")
             /\ UNCHANGED mapvars
             /\ UNCHANGED <<count, key1>> ) ]_vars

\* C9 witness: add returned MaxGenerationReached while the free list was
\* non-empty.
C9_Witness ==
    /\ call.op = "add"
    /\ ret = RetErr("MaxGenerationReached")
    /\ generation = U32_MAX
    /\ Len(openlist) > 0

\* C10: an add that returns NoFreeSlots advances the generation counter
\* by one and leaves data, the free list and len() as they were, and no
\* key returned afterwards (or before) carries the generation it consumed.
C10_NoFreeSlotsConsumesGeneration ==
    [][ /\ ( call'.op = "add" /\ ret' = RetErr("NoFreeSlots") )
            => ( /\ generation' = generation + 1
                 /\ UNCHANGED <<max_slots, data, openlist, count>>
                 /\ MapLen(data', openlist') = MapLen(data, openlist) )
        /\ ( lost # 0 /\ call'.op \in Minting /\ ret'.tag = "Ok" )
            => ret'.key.generation # lost
        /\ ( lost' # 0 /\ key1'.state # "none" ) => key1'.key.generation # lost'
        /\ lost' # 0 => \A i \in 1..Len(data') : data'[i].generation # lost' ]_vars

\* C10 witness: after an add failed with NoFreeSlots, a slot was freed and
\* a later add returned a key.
C10_Witness ==
    /\ lost # 0
    /\ call.op = "add"
    /\ ret.tag = "Ok"
    /\ ret.key.generation > lost

----------------------------------------------------------------------------
\* the slot a key addresses is there, occupied, and of the key's generation
KeyMatches(d, key) ==
    /\ key.index < Len(d)
    /\ d[key.index + 1].generation > 0
    /\ key.generation = d[key.index + 1].generation

\* the generations stored in data, slot by slot
Generations(d) == [i \in 1..Len(d) |-> d[i].generation]

\* C11: in every reachable state and for every 64-bit key value, get and
\* get_mut return the slot's value if the key's index is below data.len(),
\* the slot is occupied and the generations are equal, and None otherwise;
\* a get call changes nothing in the map, a get_mut call changes no
\* generation, not the free list and not the counter.
C11_LookupIffMatch ==
    /\ [](\A x \in U64 :
            LET key == KeyFromU64(x) IN
            /\ MapGet(data, key).some <=> KeyMatches(data, key)
            /\ MapGetMut(data, key).some <=> KeyMatches(data, key)
            /\ KeyMatches(data, key)
                => /\ MapGet(data, key) = Some(data[key.index + 1].value)
                   /\ MapGetMut(data, key) = Some(data[key.index + 1].value))
    /\ [][ /\ call'.op \in {"get", "get_mut"}
               => ( ret'.tag = "Some" <=> KeyMatches(data, call'.key) )
           /\ call'.op = "get"
               => ( UNCHANGED mapvars /\ UNCHANGED <<count, key1>> )
           /\ call'.op = "get_mut"
               => ( /\ UNCHANGED <<max_slots, generation, openlist, count>>
                    /\ Generations(data') = Generations(data) ) ]_vars

\* C11 witness: get_mut with a forged key of generation 0 addressed an
\* empty slot and returned None.
C11_Witness ==
    /\ call.op = "get_mut"
    /\ ret.tag = "None"
    /\ call.key.generation = 0
    /\ InRange(data, call.key.index)
    /\ data[call.key.index + 1].generation = 0

\* C14: new(initial_slots, max_slots) returns InvalidArgument exactly when
\* initial_slots > max_slots or max_slots = u32::MAX; otherwise it returns
\* a map with that max_slots, generation counter 0, no slots and an empty
\* free list.
C14_NewValidation ==
    call.op = "new" =>
        LET initial_slots == call.args[1]
            max == call.args[2]
        IN  /\ ret = RetErr("InvalidArgument")
                <=> ( initial_slots > max \/ max = U32_MAX )
            /\ ~( initial_slots > max \/ max = U32_MAX )
                => ( /\ ret = RetNew
                     /\ max_slots = max
                     /\ generation = 0
                     /\ data = <<>>
                     /\ openlist = <<>> )

\* C14 witness: new(m, m) with m > 0 returned a map.
C14_Witness ==
    /\ call.op = "new"
    /\ call.args[1] = call.args[2]
    /\ call.args[1] > 0
    /\ ret = RetNew
    /\ max_slots = call.args[2]

\* C15: packing a key and unpacking it gives the key back, with the index
\* in the low half and the generation in the high half; unpacking and
\* packing gives the integer back; keys are equal exactly when index and
\* generation both are; and in every state a round-tripped key gets from
\* get, get_mut and remove what the original gets.
C15_KeyRoundTrip ==
    /\ \A k \in Keys :
          /\ KeyFromU64(KeyToU64(k)) = k
          /\ KeyToU64(k) \in U64
          /\ KeyToU64(k) % Half = k.index
          /\ KeyToU64(k) \div Half = k.generation
    /\ \A x \in U64 : KeyToU64(KeyFromU64(x)) = x
    /\ \A a, b \in Keys :
          KeyEq(a, b) <=> ( a.index = b.index /\ a.generation = b.generation )
    /\ [](\A k \in Keys :
            LET copy == KeyFromU64(KeyToU64(k)) IN
            /\ MapGet(data, copy) = MapGet(data, k)
            /\ MapGetMut(data, copy) = MapGetMut(data, k)
            /\ MapRemove(data, openlist, copy) = MapRemove(data, openlist, k))

\* C15 witness: remove with a key forged from the packed form of the held
\* key took the value out of the held key's slot.
C15_Witness ==
    /\ key1.state = "removed"
    /\ call.op = "remove"
    /\ call.key = KeyFromU64(KeyToU64(key1.key))
    /\ key1.key.index > 0
    /\ ret = RetOpt(Some(1))

\* C12: a successful add returns, if the free list is non-empty, the index
\* of the most recent successful remove whose index add has not handed out
\* again, and otherwise data.len() as it was before the call; with no
\* removal so far the n-th successful add returns index n - 1.
C12_LastFreedFirstReused ==
    [][ ( call'.op = "add" /\ ret'.tag = "Ok" )
        => ( /\ Len(openlist) > 0
                 => ( Len(freed) > 0 /\ ret'.key.index = freed[Len(freed)] )
             /\ Len(openlist) = 0 => ret'.key.index = Len(data)
             /\ Len(freed) > 0 => Len(openlist) > 0
             /\ ~removed => ret'.key.index = count ) ]_vars

\* C12 witness: slot 0 was freed, then slot 1, and add reused slot 1.
C12_Witness ==
    /\ call.op = "add"
    /\ ret.tag = "Ok"
    /\ ret.key.index = 1
    /\ openlist = <<0>>
    /\ freed = <<0>>

\* C13: the generation counter never goes down; once it is u32::MAX it
\* stays there and every add and get_unique_key returns
\* MaxGenerationReached, while get, get_mut and remove go on resolving by
\* the same rule: a key of an occupied slot gets the slot's value, remove
\* takes it out, and a held live key keeps its value.
C13_ExhaustionIsPermanent ==
    [][ /\ generation' >= generation
        /\ generation = U32_MAX
            => ( /\ generation' = U32_MAX
                 /\ call'.op \in Minting
                     => ( /\ ret' = RetErr("MaxGenerationReached")
                          /\ UNCHANGED <<data, openlist>> )
                 /\ call'.op \in Lookups
                     => ( /\ ret'.tag = "Some" <=> KeyMatches(data, call'.key)
                          /\ KeyMatches(data, call'.key)
                              => ret'.value = data[call'.key.index + 1].value )
                 /\ ( call'.op = "remove" /\ KeyMatches(data, call'.key) )
                     => ( /\ data'[call'.key.index + 1].generation = 0
                          /\ MapLen(data', openlist') = MapLen(data, openlist) - 1 )
                 /\ ( key1.state = "live" /\ key1'.state = "live" )
                     => MapGet(data', key1'.key) = Some(key1'.value) ) ]_vars

\* C13 witness: with the counter at u32::MAX and one slot still occupied,
\* remove took the value out of the other slot.
C13_Witness ==
    /\ generation = U32_MAX
    /\ call.op = "remove"
    /\ ret.tag = "Some"
    /\ Len(data) = 2
    /\ Cardinality(Occupied(data)) = 1

\* C16: in every reachable state the free list holds exactly the indices
\* below data.len() whose slot is empty, each once.
C16_OpenlistIsEmptySlots ==
    /\ \A j \in 1..Len(openlist) :
          /\ openlist[j] < Len(data)
          /\ data[openlist[j] + 1].generation = 0
    /\ \A j, k \in 1..Len(openlist) : openlist[j] = openlist[k] => j = k
    /\ \A i \in 1..Len(data) :
          data[i].generation = 0 => \E j \in 1..Len(openlist) : openlist[j] = i - 1

\* C16 witness: both slots were freed, the second one first, and
\* get_unique_key was called after that.
C16_Witness ==
    /\ openlist = <<1, 0>>
    /\ call.op = "get_unique_key"
    /\ ret.tag = "Ok"

\* C17: add never returns SlotNotEmpty or IndexOutOfBounds: the index on
\* top of the free list is in range and addresses an empty slot, and the
\* index a key is made of is below u32::MAX.
C17_DefensiveBranchesDead ==
    [][ call'.op = "add"
        => ( /\ ret' # RetErr("SlotNotEmpty")
             /\ ret' # RetErr("IndexOutOfBounds")
             /\ Len(openlist) > 0
                 => ( /\ InRange(data, openlist[Len(openlist)])
                      /\ SlotIsEmpty(data[openlist[Len(openlist)] + 1])
                      /\ openlist[Len(openlist)] < U32_MAX )
             /\ ( Len(openlist) = 0 /\ Len(data) < max_slots ) => Len(data) < U32_MAX
             /\ ret'.tag = "Err" => ret'.err \in {"MaxGenerationReached", "NoFreeSlots"} ) ]_vars

\* C17 witness: add reused slot 0 while slot 1 was occupied.
C17_Witness ==
    /\ call.op = "add"
    /\ ret.tag = "Ok"
    /\ ret.key.index = 0
    /\ Len(data) = 2
    /\ data[2].generation > 0
    /\ data[2].generation < ret.key.generation

\* C18: data.len() <= max_slots < u32::MAX in every reachable state,
\* data.len() never decreases, and every key add returns has an index
\* below data.len(), so never the sentinel index.
C18_DataWithinCapacity ==
    /\ [](Len(data) <= max_slots /\ max_slots < U32_MAX)
    /\ [][ /\ Len(data') >= Len(data)
           /\ max_slots' = max_slots
           /\ ( call'.op = "add" /\ ret'.tag = "Ok" )
               => ( ret'.key.index < Len(data') /\ ret'.key.index # U32_MAX )
           /\ key1'.state \in {"live", "removed"}
               => ( key1'.key.index < Len(data') /\ key1'.key.index # U32_MAX ) ]_vars

\* C18 witness: with no removal, add filled the last slot the map may have.
C18_Witness ==
    /\ call.op = "add"
    /\ ret.tag = "Ok"
    /\ ~removed
    /\ max_slots >= 2
    /\ Len(data) = max_slots
    /\ ret.key.index = max_slots - 1

\* C19: from add(v) returning k until remove(k) succeeds, get(k) returns
\* the value last stored under k (v, or what was written through
\* get_mut(k)), whatever else is called in between with other keys.
C19_LiveKeyKeepsResolving ==
    /\ [](key1.state = "live" => MapGet(data, key1.key) = Some(key1.value))
    /\ [][ ( key1.state = "live" /\ ~( call'.op = "remove" /\ call'.key = key1.key ) )
           => ( /\ key1'.state = "live"
                /\ key1'.key = key1.key
                /\ MapGet(data', key1.key)
                     = Some(IF call'.op = "get_mut" /\ call'.key = key1.key
                            THEN call'.value
                            ELSE key1.value) ) ]_vars

\* C19 witness: the value under the held key was overwritten through
\* get_mut, and remove with a forged key of another generation at the same
\* index returned None.
C19_Witness ==
    /\ key1.state = "live"
    /\ key1.value # key1.orig
    /\ call.op = "remove"
    /\ call.key # key1.key
    /\ call.key.index = key1.key.index
    /\ ret.tag = "None"

\* C20: every occupied slot stores a generation from 1 to the counter, no
\* two occupied slots store the same one, at most one key value resolves
\* to a slot, and add returns no key for the slot of a live key.
C20_SlotGenerationsDistinct ==
    /\ [](/\ \A i \in Occupied(data) :
               data[i].generation >= 1 /\ data[i].generation <= generation
          /\ \A i, j \in Occupied(data) :
               data[i].generation = data[j].generation => i = j
          /\ \A i \in 1..Len(data) :
               Cardinality({x \in U64 : /\ KeyFromU64(x).index = i - 1
                                        /\ MapGet(data, KeyFromU64(x)).some})
                 = IF i \in Occupied(data) THEN 1 ELSE 0)
    /\ [][ ( key1.state = "live" /\ call'.op = "add" /\ ret'.tag = "Ok" )
           => ( /\ ret'.key.index # key1.key.index
                /\ ret'.key.generation # key1.key.generation ) ]_vars

\* C20 witness: two slots are occupied, slot 0 by the later add.
C20_Witness ==
    /\ Len(data) = 2
    /\ data[2].generation > 0
    /\ data[1].generation > data[2].generation
    /\ key1.state = "live"

====
